---- MODULE Spec2Model ----
(***************************************************************************)
(* Work/rest countdown timer (src/app.js, first revision in the file) and  *)
(* its local time-entry ledger (TimeEntriesStorage, ExternalTimerAPI).     *)
(*                                                                         *)
(* Every method of the program is an operator from a program state (a      *)
(* record with one field per object field / localStorage key / pending     *)
(* browser callback) to the program state after the call.  Every event     *)
(* handler is one action that applies the handler's operator to the        *)
(* current state.  Times are milliseconds (Date.now()).  An ISO timestamp  *)
(* written by toISOString() and read back by new Date(..).getTime() is the *)
(* same millisecond count, so timestamps are kept as millisecond counts.   *)
(***************************************************************************)
EXTENDS Integers, Sequences, FiniteSets, TLC

VARIABLES
  initialTime,      \* TimerModel.initialTime of each unit (ms)
  remainingTime,    \* TimerModel.remainingTime of each unit (ms)
  isCurrent,        \* TimerModel.isCurrent of each unit
  timer,            \* WorkRestTimer.timer: NULL or a requestAnimationFrame handle
  timeoutId,        \* WorkRestTimer.timeoutId: NULL or a setTimeout handle
  rafs,             \* animation-frame callbacks the browser still has to run
  timeouts,         \* setTimeout callbacks the browser still has to run
  now,              \* Date.now()
  currentTimeEntry, \* TimeEntriesStorage.currentTimeEntry
  localEntries,     \* TimeEntriesStorage.localEntries
  lsCurrent,        \* localStorage 'currentTimeEntry'
  lsEntries,        \* localStorage 'timeEntries'
  lsPlayerTime,     \* localStorage 'player1Time' / 'player2Time' (seconds)
  lsToggl,          \* localStorage 'togglDescription', 'togglEmail',
                    \* 'togglProjectName'
  controlsHidden,   \* #controls and #pause carry class 'hidden'
  pauseIconHidden,  \* .pause-icon carries class 'hidden'
  playIconHidden,   \* .play-icon carries class 'hidden'
  hooks,            \* (history) hook calls made by the last handler, in order
  lastOp            \* (history) the last handler that ran, with its inputs

vars == <<initialTime, remainingTime, isCurrent, timer, timeoutId, rafs,
          timeouts, now, currentTimeEntry, localEntries, lsCurrent, lsEntries,
          lsPlayerTime, lsToggl, controlsHidden, pauseIconHidden,
          playIconHidden, hooks, lastOp>>

\* ---------------------------------------------------------------- bounds
\* The ledger holds at most MaxEntries completed entries.
MaxEntries == 1

\* The ledger driven on its own holds at most MaxLedgerEntries completed
\* entries.
MaxLedgerEntries == 2

\* What the settings dialog can hold when it is saved.
SettingsChoices ==
  { [description |-> "", email |-> "", projectName |-> ""],
    [description |-> "Deep work", email |-> "me@example.org",
     projectName |-> "Timer"] }

\* Durations (in seconds) that the stored settings and the edit prompt offer.
DurationsSec == {1, 2}
\* The clock readings (ms) at which browser events are observed: two events
\* can be less than UPDATE_DELAY apart, a fraction of a second apart, exactly
\* one and two seconds apart.
Instants == {0, 25, 1000, 2000}
NoInstantBetween(t0, t1) == \A t \in Instants : ~(t0 < t /\ t < t1)

\* ------------------------------------------------------------- constants
UPDATE_DELAY == 50
NULL == 0
NoEntry == [start |-> -1]
\* No Toggl setting is stored (getItem gives null, read as '').
NoSettings == [description |-> "", email |-> "", projectName |-> ""]

Units == {"work", "rest"}
controllers == <<"work", "rest">>

\* ------------------------------------------------------------ TimerModel
Max(a, b) == IF a >= b THEN a ELSE b

\* Mutant of updateTime: the decrement is not clamped at zero.
updateTime_noClamp(s, u, elapsedMs) ==
  IF elapsedMs > 0 /\ s.remainingTime[u] > 0
  THEN [s EXCEPT !.remainingTime[u] = s.remainingTime[u] - elapsedMs]
  ELSE s

\* Mutant of updateTime: the sign of the elapsed time is not looked at.
updateTime_anyElapsed(s, u, elapsedMs) ==
  IF s.remainingTime[u] > 0
  THEN [s EXCEPT !.remainingTime[u] = Max(0, s.remainingTime[u] - elapsedMs)]
  ELSE s

updateTime(s, u, elapsedMs) ==
  IF elapsedMs > 0 /\ s.remainingTime[u] > 0
  THEN [s EXCEPT !.remainingTime[u] = Max(0, s.remainingTime[u] - elapsedMs)]
  ELSE s

\* what updateTime returns: the remaining time after the update
updateTimeReturns(s, u, elapsedMs) ==
  updateTime(s, u, elapsedMs).remainingTime[u]

modelSetCurrent(s, u, isCur) ==
  [s EXCEPT !.isCurrent[u] = isCur]

\* Mutant of resetRemainingTime: the remaining time is left as it is.
resetRemainingTime_keep(s, u) ==
  s

resetRemainingTime(s, u) ==
  [s EXCEPT !.remainingTime[u] = s.initialTime[u]]

\* ---------------------------------------------------- TimeEntriesStorage
\* Mutant of startTimeEntry: the description setting is not read.
startTimeEntry_fixedDescription(s, t) ==
  LET entry == [start |-> t, description |-> "Work session"]
  IN [s EXCEPT !.currentTimeEntry = entry, !.lsCurrent = entry]

startTimeEntry(s, t) ==
  LET description == IF s.lsToggl.description = "" THEN "Work session"
                     ELSE s.lsToggl.description
      entry == [start |-> t, description |-> description]
  IN [s EXCEPT !.currentTimeEntry = entry, !.lsCurrent = entry]

\* Mutant of stopTimeEntry: the duration is rounded up instead of down.
stopTimeEntry_ceil(s, t) ==
  IF s.currentTimeEntry = NoEntry
  THEN s
  ELSE LET entry == [start |-> s.currentTimeEntry.start,
                     description |-> s.currentTimeEntry.description,
                     stop |-> t,
                     duration |-> (t - s.currentTimeEntry.start + 999) \div 1000]
           entries == Append(s.localEntries, entry)
       IN [s EXCEPT !.localEntries = entries,
                    !.lsEntries = entries,
                    !.lsCurrent = NoEntry,
                    !.currentTimeEntry = NoEntry]

\* Mutant of stopTimeEntry: the call is not guarded, with no session in
\* progress an entry of no length is completed.
stopTimeEntry_noGuard(s, t) ==
  LET cur == IF s.currentTimeEntry = NoEntry
             THEN [start |-> t, description |-> "Work session"]
             ELSE s.currentTimeEntry
      entry == [start |-> cur.start, description |-> cur.description,
                stop |-> t,
                duration |-> (t - cur.start) \div 1000]
      entries == Append(s.localEntries, entry)
  IN [s EXCEPT !.localEntries = entries,
               !.lsEntries = entries,
               !.lsCurrent = NoEntry,
               !.currentTimeEntry = NoEntry]

\* Mutant of stopTimeEntry: the stored session in progress is not removed.
stopTimeEntry_keepStored(s, t) ==
  IF s.currentTimeEntry = NoEntry
  THEN s
  ELSE LET entry == [start |-> s.currentTimeEntry.start,
                     description |-> s.currentTimeEntry.description,
                     stop |-> t,
                     duration |-> (t - s.currentTimeEntry.start) \div 1000]
           entries == Append(s.localEntries, entry)
       IN [s EXCEPT !.localEntries = entries,
                    !.lsEntries = entries,
                    !.currentTimeEntry = NoEntry]

stopTimeEntry(s, t) ==
  IF s.currentTimeEntry = NoEntry
  THEN s
  ELSE LET entry == [start |-> s.currentTimeEntry.start,
                     description |-> s.currentTimeEntry.description,
                     stop |-> t,
                     duration |-> (t - s.currentTimeEntry.start) \div 1000]
           entries == Append(s.localEntries, entry)
       IN [s EXCEPT !.localEntries = entries,
                    !.lsEntries = entries,
                    !.lsCurrent = NoEntry,
                    !.currentTimeEntry = NoEntry]

\* What stopTimeEntry returns: null, or a copy of the completed entry.
stopTimeEntryReturns(s) ==
  IF s.currentTimeEntry = NoEntry THEN "null" ELSE "entry"

\* Mutant of clearEntries: the session in progress is dropped with the list.
clearEntries_dropsCurrent(s) ==
  [s EXCEPT !.localEntries = <<>>, !.lsEntries = <<>>,
            !.currentTimeEntry = NoEntry, !.lsCurrent = NoEntry]

clearEntries(s) ==
  [s EXCEPT !.localEntries = <<>>, !.lsEntries = <<>>]

\* One day in ms: toLocaleDateString gives the day, toLocaleTimeString the
\* time of day in whole seconds.
DayMs == 86400000

\* One row of the CSV for a completed entry; the duration is written as
\* hh:mm:ss, Email and Project are read from localStorage for every row.
csvRow(s, entry) ==
  [description |-> entry.description,
   startDate |-> entry.start \div DayMs,
   startTime |-> (entry.start % DayMs) \div 1000,
   endDate |-> entry.stop \div DayMs,
   endTime |-> (entry.stop % DayMs) \div 1000,
   duration |-> <<entry.duration \div 3600,
                  (entry.duration % 3600) \div 60,
                  entry.duration % 60>>,
   email |-> s.lsToggl.email,
   project |-> s.lsToggl.projectName]

\* Mutant of exportCSV: the session in progress is exported as a row too.
exportCSV_withRunning(s) ==
  LET all == IF s.currentTimeEntry = NoEntry THEN s.localEntries
             ELSE Append(s.localEntries,
                         [start |-> s.currentTimeEntry.start,
                          description |-> s.currentTimeEntry.description,
                          stop |-> s.currentTimeEntry.start,
                          duration |-> 0])
  IN IF Len(all) = 0
     THEN [null |-> TRUE, header |-> <<>>, rows |-> <<>>]
     ELSE [null |-> FALSE,
           header |-> <<"Description", "Start date", "Start time", "End date",
                        "End time", "Duration", "Email", "Project">>,
           rows |-> [i \in 1..Len(all) |-> csvRow(s, all[i])]]

\* exportCSV: null for an empty list, else the header and one row per entry
\* of localEntries, in the order of localEntries (the CSV text is these
\* lines joined by newlines).
exportCSV(s) ==
  IF Len(s.localEntries) = 0
  THEN [null |-> TRUE, header |-> <<>>, rows |-> <<>>]
  ELSE [null |-> FALSE,
        header |-> <<"Description", "Start date", "Start time", "End date",
                     "End time", "Duration", "Email", "Project">>,
        rows |-> [i \in 1..Len(s.localEntries) |->
                    csvRow(s, s.localEntries[i])]]

\* Array.prototype.sort with (a, b) => new Date(b.start) - new Date(a.start):
\* a stable sort, newest start first, done in place on the array it is given.
RECURSIVE InsertByStartDesc(_, _)
InsertByStartDesc(sorted, e) ==
  IF sorted = <<>> THEN <<e>>
  ELSE IF e.start > Head(sorted).start THEN <<e>> \o sorted
  ELSE <<Head(sorted)>> \o InsertByStartDesc(Tail(sorted), e)

RECURSIVE SortByStartDesc(_)
SortByStartDesc(entries) ==
  IF entries = <<>> THEN <<>>
  ELSE InsertByStartDesc(SortByStartDesc(SubSeq(entries, 1, Len(entries) - 1)),
                         entries[Len(entries)])

renderTimeEntries(s) ==
  IF Len(s.localEntries) = 0 THEN s
  ELSE [s EXCEPT !.localEntries = SortByStartDesc(s.localEntries)]

\* ------------------------------------------------------- TimerController
Hook(s, name, u) ==
  [s EXCEPT !.hooks = Append(s.hooks, [hook |-> name, unit |-> u])]

\* Mutant of handleStart: every unit's start hook reaches the ledger.
handleStart_anyUnit(s, u, t) ==
  startTimeEntry(Hook(s, "handleStart", u), t)

handleStart(s, u, t) ==
  IF u = "work" THEN startTimeEntry(Hook(s, "handleStart", u), t)
  ELSE Hook(s, "handleStart", u)

handleStop(s, u, t) ==
  IF u = "work" THEN stopTimeEntry(Hook(s, "handleStop", u), t)
  ELSE Hook(s, "handleStop", u)

controllerHandleTimeout(s, u, t) ==
  IF u = "work" THEN stopTimeEntry(Hook(s, "handleTimeout", u), t)
  ELSE Hook(s, "handleTimeout", u)

\* Mutant of stoppedRunning: a unit that loses current is not seen as stopped.
stoppedRunning_onlyWhileCurrent(wasCurrent, isCur, wasRunning, isRunning) ==
  wasCurrent /\ isCur /\ wasRunning /\ ~isRunning

\* Mutant of stoppedRunning: a unit that loses current is seen as stopped
\* whether the loop was running or not.
stoppedRunning_ignoresWasRunning(wasCurrent, isCur, wasRunning, isRunning) ==
  LET stoppedBeingCurrent == wasCurrent /\ ~isCur
      stoppedWhileCurrent == wasCurrent /\ isCur /\ wasRunning /\ ~isRunning
  IN stoppedBeingCurrent \/ stoppedWhileCurrent

stoppedRunning(wasCurrent, isCur, wasRunning, isRunning) ==
  LET stoppedBeingCurrent == wasCurrent /\ ~isCur /\ wasRunning
      stoppedWhileCurrent == wasCurrent /\ isCur /\ wasRunning /\ ~isRunning
  IN stoppedBeingCurrent \/ stoppedWhileCurrent

startedRunning(wasCurrent, isCur, wasRunning, isRunning) ==
  LET startedBeingCurrent == ~wasCurrent /\ isCur /\ isRunning
      startedWhileCurrent == wasCurrent /\ isCur /\ ~wasRunning /\ isRunning
  IN startedBeingCurrent \/ startedWhileCurrent

setCurrent(s, u, isCur, wasRunning, isRunning, t) ==
  LET wasCurrent == s.isCurrent[u]
      s1 == IF stoppedRunning(wasCurrent, isCur, wasRunning, isRunning)
            THEN handleStop(s, u, t) ELSE s
      s2 == [s1 EXCEPT !.isCurrent[u] = isCur]
  IN IF startedRunning(wasCurrent, isCur, wasRunning, isRunning)
     THEN handleStart(s2, u, t) ELSE s2

\* Mutant of TimerController.reset: the stop hook is called unconditionally.
controllerReset_alwaysStop(s, u, wasRunning, t) ==
  setCurrent(handleStop(resetRemainingTime(s, u), u, t), u, FALSE, FALSE, FALSE, t)

controllerReset(s, u, wasRunning, t) ==
  setCurrent(resetRemainingTime(s, u), u, FALSE, wasRunning, FALSE, t)

\* --------------------------------------------------------- WorkRestTimer
getCurrentController(s) ==
  IF \E i \in 1..Len(controllers) : s.isCurrent[controllers[i]]
  THEN controllers[CHOOSE i \in 1..Len(controllers) :
                     /\ s.isCurrent[controllers[i]]
                     /\ \A j \in 1..(i - 1) : ~s.isCurrent[controllers[j]]]
  ELSE "none"

hasCurrentController(s) == \E u \in Units : s.isCurrent[u]

isRunning(s) == s.timer # NULL

\* Mutant of setCurrentController: only the chosen controller is told.
setCurrentController_onlyChosen(s, c, wasRunning, running, t) ==
  setCurrent(s, c, TRUE, wasRunning, running, t)

setCurrentController(s, c, wasRunning, running, t) ==
  LET s1 == setCurrent(s, controllers[1], controllers[1] = c, wasRunning, running, t)
  IN setCurrent(s1, controllers[2], controllers[2] = c, wasRunning, running, t)

\* Mutant of updateButtonsVisibility: only the tick loop is looked at.
updateButtonsVisibility_onlyRunning(s) ==
  [s EXCEPT !.controlsHidden = ~isRunning(s)]

updateButtonsVisibility(s) ==
  [s EXCEPT !.controlsHidden = ~(isRunning(s) \/ hasCurrentController(s))]

showPauseIcon(s) ==
  [s EXCEPT !.pauseIconHidden = FALSE, !.playIconHidden = TRUE]

showPlayIcon(s) ==
  [s EXCEPT !.pauseIconHidden = TRUE, !.playIconHidden = FALSE]

\* A handle the browser has not handed out to a callback that is still
\* pending or still named by the program.
FreshId(used) ==
  CHOOSE i \in 1..(Cardinality(used) + 1) :
    i \notin used /\ \A j \in 1..(i - 1) : j \in used

cancelAnimationFrame(s, id) ==
  [s EXCEPT !.rafs = {r \in s.rafs : r.id # id}]

clearTimeout(s, id) ==
  [s EXCEPT !.timeouts = {r \in s.timeouts : r.id # id}]

requestAnimationFrame(s, last) ==
  LET id == FreshId({r.id : r \in s.rafs} \cup {s.timer})
  IN [s EXCEPT !.rafs = s.rafs \cup {[id |-> id, last |-> last]},
               !.timer = id]

\* Mutant of startTimer: lastUpdateTime is not taken from the clock but
\* starts at the time origin.
startTimer_staleReference(s, t) ==
  LET s1 == IF s.timer # NULL THEN cancelAnimationFrame(s, s.timer) ELSE s
      s2 == IF s1.timeoutId # NULL THEN clearTimeout(s1, s1.timeoutId) ELSE s1
      s3 == updateButtonsVisibility(s2)
  IN requestAnimationFrame(s3, 0)

startTimer(s, t) ==
  LET s1 == IF s.timer # NULL THEN cancelAnimationFrame(s, s.timer) ELSE s
      s2 == IF s1.timeoutId # NULL THEN clearTimeout(s1, s1.timeoutId) ELSE s1
      s3 == updateButtonsVisibility(s2)
  IN requestAnimationFrame(s3, t)

handleTimeout(s, u, t) ==
  LET s1 == IF s.timer # NULL
            THEN [cancelAnimationFrame(s, s.timer) EXCEPT !.timer = NULL]
            ELSE s
      s2 == IF s1.timeoutId # NULL
            THEN [clearTimeout(s1, s1.timeoutId) EXCEPT !.timeoutId = NULL]
            ELSE s1
  IN controllerHandleTimeout(s2, u, t)

setTimeout(s, delay, last, t) ==
  LET id == FreshId({r.id : r \in s.timeouts} \cup {s.timeoutId})
  IN [s EXCEPT !.timeouts = s.timeouts \cup
                              {[id |-> id, due |-> t + delay, last |-> last]},
               !.timeoutId = id]

\* Mutant of updateTimer: no return after handleTimeout, the next update is
\* scheduled all the same.
updateTimer_noReturn(s, lastUpdateTime, t) ==
  LET elapsedMs == t - lastUpdateTime
      cc == getCurrentController(s)
      delay == Max(0, UPDATE_DELAY - elapsedMs)
  IN IF elapsedMs >= UPDATE_DELAY /\ cc # "none"
     THEN LET s1 == updateTime(s, cc, elapsedMs)
          IN IF s1.remainingTime[cc] <= 0
             THEN setTimeout(handleTimeout(s1, cc, t), delay, lastUpdateTime, t)
             ELSE setTimeout(updateButtonsVisibility(s1), delay, t, t)
     ELSE setTimeout(s, delay, lastUpdateTime, t)

\* Mutant of updateTimer: after a processed tick no further update is
\* scheduled.
updateTimer_noReschedule(s, lastUpdateTime, t) ==
  LET elapsedMs == t - lastUpdateTime
      cc == getCurrentController(s)
      delay == Max(0, UPDATE_DELAY - elapsedMs)
  IN IF elapsedMs >= UPDATE_DELAY /\ cc # "none"
     THEN LET s1 == updateTime(s, cc, elapsedMs)
          IN IF s1.remainingTime[cc] <= 0
             THEN handleTimeout(s1, cc, t)
             ELSE updateButtonsVisibility(s1)
     ELSE setTimeout(s, delay, lastUpdateTime, t)

\* Mutant of updateTimer: a tick that comes too early still moves
\* lastUpdateTime on.
updateTimer_advancesReference(s, lastUpdateTime, t) ==
  LET elapsedMs == t - lastUpdateTime
      cc == getCurrentController(s)
      delay == Max(0, UPDATE_DELAY - elapsedMs)
  IN IF elapsedMs >= UPDATE_DELAY /\ cc # "none"
     THEN LET s1 == updateTime(s, cc, elapsedMs)
          IN IF s1.remainingTime[cc] <= 0
             THEN handleTimeout(s1, cc, t)
             ELSE setTimeout(updateButtonsVisibility(s1), delay, t, t)
     ELSE setTimeout(s, delay, t, t)

\* The closure updateTimer of one startTimer call; lastUpdateTime is the
\* closure's variable, carried by the pending callback.
updateTimer(s, lastUpdateTime, t) ==
  LET elapsedMs == t - lastUpdateTime
      cc == getCurrentController(s)
      delay == Max(0, UPDATE_DELAY - elapsedMs)
  IN IF elapsedMs >= UPDATE_DELAY /\ cc # "none"
     THEN LET s1 == updateTime(s, cc, elapsedMs)
          IN IF s1.remainingTime[cc] <= 0
             THEN handleTimeout(s1, cc, t)
             ELSE setTimeout(updateButtonsVisibility(s1), delay, t, t)
     ELSE setTimeout(s, delay, lastUpdateTime, t)

\* Mutant of start: the tick loop is restarted on every activation.
start_alwaysStartTimer(s, c, t) ==
  LET wasRunning == isRunning(s)
      s1 == setCurrentController(s, c, wasRunning, TRUE, t)
  IN updateButtonsVisibility(showPauseIcon(startTimer(s1, t)))

start(s, c, t) ==
  LET wasRunning == isRunning(s)
      s1 == setCurrentController(s, c, wasRunning, TRUE, t)
      s2 == IF ~wasRunning THEN showPauseIcon(startTimer(s1, t)) ELSE s1
  IN updateButtonsVisibility(s2)

\* Mutant of pause: the pending setTimeout callback is not cleared.
pause_leavesTimeout(s, t) ==
  LET cc == getCurrentController(s)
  IN IF isRunning(s)
     THEN LET s1 == cancelAnimationFrame(s, s.timer)
              s3 == showPlayIcon([s1 EXCEPT !.timer = NULL])
          IN IF cc # "none" THEN handleStop(s3, cc, t) ELSE s3
     ELSE IF cc # "none"
     THEN handleStart(showPauseIcon(startTimer(s, t)), cc, t)
     ELSE s

\* Mutant of pause: pausing tells the current controller twice that it stopped.
pause_doubleStop(s, t) ==
  LET cc == getCurrentController(s)
  IN IF isRunning(s)
     THEN LET s1 == cancelAnimationFrame(s, s.timer)
              s2 == IF s1.timeoutId # NULL
                    THEN [clearTimeout(s1, s1.timeoutId) EXCEPT !.timeoutId = NULL]
                    ELSE s1
              s3 == showPlayIcon([s2 EXCEPT !.timer = NULL])
          IN IF cc # "none" THEN handleStop(handleStop(s3, cc, t), cc, t) ELSE s3
     ELSE IF cc # "none"
     THEN handleStart(showPauseIcon(startTimer(s, t)), cc, t)
     ELSE s

pause(s, t) ==
  LET cc == getCurrentController(s)
  IN IF isRunning(s)
     THEN LET s1 == cancelAnimationFrame(s, s.timer)
              s2 == IF s1.timeoutId # NULL
                    THEN [clearTimeout(s1, s1.timeoutId) EXCEPT !.timeoutId = NULL]
                    ELSE s1
              s3 == showPlayIcon([s2 EXCEPT !.timer = NULL])
          IN IF cc # "none" THEN handleStop(s3, cc, t) ELSE s3
     ELSE IF cc # "none"
     THEN handleStart(showPauseIcon(startTimer(s, t)), cc, t)
     ELSE s

\* Mutant of reset: the loop stop tells the current controller that it
\* stopped, and the controller that loses current is told again.
reset_doubleStop(s, t) ==
  LET wasRunning == isRunning(s)
      cc == getCurrentController(s)
      s1 == IF s.timer # NULL
            THEN [cancelAnimationFrame(s, s.timer) EXCEPT !.timer = NULL]
            ELSE s
      s2 == IF s1.timeoutId # NULL
            THEN [clearTimeout(s1, s1.timeoutId) EXCEPT !.timeoutId = NULL]
            ELSE s1
      s2b == IF wasRunning /\ cc # "none" THEN handleStop(s2, cc, t) ELSE s2
      s3 == controllerReset(s2b, controllers[1], wasRunning, t)
      s4 == controllerReset(s3, controllers[2], wasRunning, t)
  IN updateButtonsVisibility(s4)

reset(s, t) ==
  LET wasRunning == isRunning(s)
      s1 == IF s.timer # NULL
            THEN [cancelAnimationFrame(s, s.timer) EXCEPT !.timer = NULL]
            ELSE s
      s2 == IF s1.timeoutId # NULL
            THEN [clearTimeout(s1, s1.timeoutId) EXCEPT !.timeoutId = NULL]
            ELSE s1
      s3 == controllerReset(s2, controllers[1], wasRunning, t)
      s4 == controllerReset(s3, controllers[2], wasRunning, t)
  IN updateButtonsVisibility(s4)

\* parseInt(part, 10) || 0 on one colon-separated part of the prompt text.
parseIntOr0(p) == IF p.num THEN p.val ELSE 0

\* parseTime: total seconds, or a thrown 'Invalid time format' error.
parseTime(parts) ==
  IF Len(parts) = 3
  THEN [thrown |-> FALSE,
        value |-> parseIntOr0(parts[1]) * 3600 + parseIntOr0(parts[2]) * 60
                  + parseIntOr0(parts[3])]
  ELSE IF Len(parts) = 2
  THEN [thrown |-> FALSE,
        value |-> parseIntOr0(parts[1]) * 3600 + parseIntOr0(parts[2]) * 60]
  ELSE [thrown |-> TRUE, value |-> 0]

\* Mutant of applyNewTime: the remaining time is never reset.
applyNewTime_keepRemaining(s, u, newSeconds) ==
  LET s1 == [s EXCEPT !.initialTime[u] = newSeconds * 1000]
  IN [s1 EXCEPT !.lsPlayerTime[u] = newSeconds]

applyNewTime(s, u, newSeconds) ==
  LET s1 == [s EXCEPT !.initialTime[u] = newSeconds * 1000]
      s2 == IF ~s1.isCurrent[u] \/ ~isRunning(s1)
            THEN resetRemainingTime(s1, u) ELSE s1
  IN [s2 EXCEPT !.lsPlayerTime[u] = newSeconds]

\* How editTimer ends for a prompt result: nothing entered, input refused
\* by the alert, or a new time applied.
editOutcome(result) ==
  IF result.kind # "text" \/ result.parts = <<>> THEN "cancelled"
  ELSE IF parseTime(result.parts).thrown \/ parseTime(result.parts).value <= 0
  THEN "rejected"
  ELSE "accepted"

\* editTimer: t0 is the time the handler is entered, t1 the time the prompt
\* returns (prompt() blocks the page while the wall clock goes on).
editTimer(s, u, result, t0, t1) ==
  LET wasRunning == isRunning(s)
      s1 == IF wasRunning THEN pause(s, t0) ELSE s
      parsed == parseTime(result.parts)
      s2 == IF editOutcome(result) = "accepted"
            THEN applyNewTime(s1, u, parsed.value)
            ELSE s1
  IN IF wasRunning THEN pause(s2, t1) ELSE s2

\* ---------------------------------------------------------- page (re)load
\* DOMContentLoaded: ExternalTimerAPI.init() builds a TimeEntriesStorage from
\* localStorage, new WorkRestTimer(player1Time, player2Time) builds the
\* models, and the document is the static index.html again.
PageLoad(ls) ==
  [initialTime      |-> [u \in Units |-> ls.lsPlayerTime[u] * 1000],
   remainingTime    |-> [u \in Units |-> ls.lsPlayerTime[u] * 1000],
   isCurrent        |-> [u \in Units |-> FALSE],
   timer            |-> NULL,
   timeoutId        |-> NULL,
   rafs             |-> {},
   timeouts         |-> {},
   currentTimeEntry |-> ls.lsCurrent,
   localEntries     |-> ls.lsEntries,
   lsCurrent        |-> ls.lsCurrent,
   lsEntries        |-> ls.lsEntries,
   lsPlayerTime     |-> ls.lsPlayerTime,
   lsToggl          |-> ls.lsToggl,
   controlsHidden   |-> TRUE,
   pauseIconHidden  |-> TRUE,
   playIconHidden   |-> TRUE,
   hooks            |-> <<>>]

\* ------------------------------------------------------------ the machine
State ==
  [initialTime      |-> initialTime,
   remainingTime    |-> remainingTime,
   isCurrent        |-> isCurrent,
   timer            |-> timer,
   timeoutId        |-> timeoutId,
   rafs             |-> rafs,
   timeouts         |-> timeouts,
   currentTimeEntry |-> currentTimeEntry,
   localEntries     |-> localEntries,
   lsCurrent        |-> lsCurrent,
   lsEntries        |-> lsEntries,
   lsPlayerTime     |-> lsPlayerTime,
   lsToggl          |-> lsToggl,
   controlsHidden   |-> controlsHidden,
   pauseIconHidden  |-> pauseIconHidden,
   playIconHidden   |-> playIconHidden,
   hooks            |-> <<>>]

\* The program state after a handler, with the handler recorded in lastOp.
\* The ledger is capped at MaxEntries completed entries.
Commit(s, op) ==
  /\ Len(s.localEntries) <= MaxEntries
  /\ initialTime' = s.initialTime
  /\ remainingTime' = s.remainingTime
  /\ isCurrent' = s.isCurrent
  /\ timer' = s.timer
  /\ timeoutId' = s.timeoutId
  /\ rafs' = s.rafs
  /\ timeouts' = s.timeouts
  /\ currentTimeEntry' = s.currentTimeEntry
  /\ localEntries' = s.localEntries
  /\ lsCurrent' = s.lsCurrent
  /\ lsEntries' = s.lsEntries
  /\ lsPlayerTime' = s.lsPlayerTime
  /\ lsToggl' = s.lsToggl
  /\ controlsHidden' = s.controlsHidden
  /\ pauseIconHidden' = s.pauseIconHidden
  /\ playIconHidden' = s.playIconHidden
  /\ hooks' = s.hooks
  /\ lastOp' = op

\* The engine states of the specification, read off the program state.
RunState(s) ==
  IF isRunning(s) THEN "RUNNING"
  ELSE IF hasCurrentController(s) THEN "PAUSED"
  ELSE "STOPPED"

\* lastOp: the handler, the unit it was given and a note on its input.
Op(name, u, arg) == [op |-> name, unit |-> u, arg |-> arg]

Text(parts) == [kind |-> "text", parts |-> parts]
N(v) == [num |-> TRUE, val |-> v]
NaN == [num |-> FALSE, val |-> 0]

\* What prompt() can return: null (cancelled), '' and some typed texts.
PromptResults ==
  { [kind |-> "null", parts |-> <<>>],
    Text(<<>>),
    Text(<<N(0), N(0), N(-1)>>),
    Text(<<N(5)>>),
    Text(<<N(0), N(0)>>) }
  \cup { Text(<<NaN, N(0), N(d)>>) : d \in DurationsSec }

Init ==
  /\ now = 0
  /\ \E pt \in [Units -> DurationsSec] :
       LET s == PageLoad([lsPlayerTime |-> pt, lsToggl |-> NoSettings,
                          lsCurrent |-> NoEntry,
                          lsEntries |-> <<>>])
       IN /\ initialTime = s.initialTime
          /\ remainingTime = s.remainingTime
          /\ isCurrent = s.isCurrent
          /\ timer = s.timer
          /\ timeoutId = s.timeoutId
          /\ rafs = s.rafs
          /\ timeouts = s.timeouts
          /\ currentTimeEntry = s.currentTimeEntry
          /\ localEntries = s.localEntries
          /\ lsCurrent = s.lsCurrent
          /\ lsEntries = s.lsEntries
          /\ lsPlayerTime = s.lsPlayerTime
          /\ lsToggl = s.lsToggl
          /\ controlsHidden = s.controlsHidden
          /\ pauseIconHidden = s.pauseIconHidden
          /\ playIconHidden = s.playIconHidden
          /\ hooks = s.hooks
  /\ lastOp = Op("load", "none", "")

\* click on a timer: startCallback(controller)
Start(u) ==
  /\ Commit(start(State, u, now),
            Op("start", u, IF lastOp.op = "start" /\ lastOp.unit = u
                           THEN "again" ELSE ""))
  /\ UNCHANGED now

\* click on the pause button
Pause ==
  /\ Commit(pause(State, now), Op("pause", "none", ""))
  /\ UNCHANGED now

\* click on the reset button
Reset ==
  /\ Commit(reset(State, now), Op("reset", "none", RunState(State)))
  /\ UNCHANGED now

\* click on an edit button; the prompt returns at t1, at once or an instant
\* later
EditTimer(u, result, t1) ==
  /\ t1 >= now /\ NoInstantBetween(now, t1)
  /\ Commit(editTimer(State, u, result, now, t1),
            Op("editTimer", u, editOutcome(result)))
  /\ now' = t1

\* the browser runs a pending animation-frame callback (one tick)
Tick(r) ==
  /\ r \in rafs
  /\ Commit(updateTimer([State EXCEPT !.rafs = rafs \ {r}], r.last, now),
            Op("tick", getCurrentController(State), ""))
  /\ UNCHANGED now

\* the browser runs a pending setTimeout callback once its delay has passed
TimeoutFire(r) ==
  /\ r \in timeouts
  /\ now >= r.due
  /\ Commit(requestAnimationFrame([State EXCEPT !.timeouts = timeouts \ {r}],
                                  r.last),
            Op("timeoutFire", "none", ""))
  /\ UNCHANGED now

\* the wall clock goes on
Advance(t1) ==
  /\ t1 > now /\ NoInstantBetween(now, t1)
  /\ now' = t1
  /\ UNCHANGED <<initialTime, remainingTime, isCurrent, timer, timeoutId, rafs,
                 timeouts, currentTimeEntry, localEntries, lsCurrent, lsEntries,
                 lsPlayerTime, lsToggl, controlsHidden, pauseIconHidden,
                 playIconHidden, hooks, lastOp>>

\* the user reloads the page
Reload ==
  /\ Commit(PageLoad(State), Op("load", "none", ""))
  /\ UNCHANGED now

\* click on the entries button: renderTimeEntries()
OpenEntries ==
  /\ Commit(renderTimeEntries(State), Op("openEntries", "none", ""))
  /\ UNCHANGED now

\* click on 'clear entries', confirmed
ClearEntries ==
  /\ Commit(renderTimeEntries(clearEntries(State)), Op("clearEntries", "none", ""))
  /\ UNCHANGED now

Next ==
  \/ \E u \in Units : Start(u)
  \/ Pause
  \/ Reset
  \/ \E u \in Units, result \in PromptResults, t1 \in Instants :
       EditTimer(u, result, t1)
  \/ \E r \in rafs : Tick(r)
  \/ \E r \in timeouts : TimeoutFire(r)
  \/ \E t1 \in Instants : Advance(t1)

Spec == Init /\ [][Next]_vars

\* The timer together with the page-level events: reload, the entries view
\* and clearing the ledger.
NextPage ==
  \/ Next
  \/ Reload
  \/ OpenEntries
  \/ ClearEntries

SpecPage == Init /\ [][NextPage]_vars

\* ------------------------------------------- the loop left to run by itself
\* The user acts at the first instant only; from then on the browser delivers
\* the pending callbacks and the clock goes on.  A pending animation frame
\* and a timeout that is due are always run in the end, and the clock does
\* not stop before its last instant.
FirstInstant == CHOOSE t \in Instants : \A x \in Instants : t <= x

NextRun ==
  \/ \E u \in Units : now = FirstInstant /\ Start(u)
  \/ now = FirstInstant /\ Pause
  \/ now = FirstInstant /\ Reset
  \/ \E u \in Units, result \in PromptResults :
       now = FirstInstant /\ EditTimer(u, result, FirstInstant)
  \/ \E r \in rafs : Tick(r)
  \/ \E r \in timeouts : TimeoutFire(r)
  \/ \E t1 \in Instants : Advance(t1)

SpecRun ==
  /\ Init /\ [][NextRun]_vars
  /\ WF_vars(\E r \in rafs : Tick(r))
  /\ WF_vars(\E r \in timeouts : TimeoutFire(r))
  /\ WF_vars(\E t1 \in Instants : Advance(t1))

\* --------------------------------------------- the TimerModel on its own
\* The two TimerModel objects driven through their own methods, with elapsed
\* times that are negative, zero, less than and more than what remains.
ElapsedChoices == {-1000, 0, 400, 1000, 3000}

UpdateTime(u, elapsedMs) ==
  /\ Commit(updateTime(State, u, elapsedMs),
            Op("updateTime", u, ToString(updateTimeReturns(State, u, elapsedMs))))
  /\ UNCHANGED now

ResetRemainingTime(u) ==
  /\ Commit(resetRemainingTime(State, u), Op("resetRemainingTime", u, ""))
  /\ UNCHANGED now

ModelSetCurrent(u, isCur) ==
  /\ Commit(modelSetCurrent(State, u, isCur), Op("setCurrent", u, ""))
  /\ UNCHANGED now

NextTimerModel ==
  \/ \E u \in Units, elapsedMs \in ElapsedChoices : UpdateTime(u, elapsedMs)
  \/ \E u \in Units : ResetRemainingTime(u)
  \/ \E u \in Units, isCur \in BOOLEAN : ModelSetCurrent(u, isCur)

SpecTimerModel == Init /\ [][NextTimerModel]_vars

\* ------------------------------------- start() with a foreign controller
\* A controller object that is neither this.workController nor
\* this.restController.
UnknownController == "unknown"

\* start(controller) called with a controller that is not in this.controllers
StartUnknown ==
  /\ Commit(start(State, UnknownController, now),
            Op("startUnknown", "none", RunState(State)))
  /\ UNCHANGED now

NextUnknown ==
  \/ Next
  \/ StartUnknown

SpecUnknown == Init /\ [][NextUnknown]_vars

\* ------------------------------------------------- the ledger on its own
\* ExternalTimerAPI with its TimeEntriesStorage, driven through its own
\* operations; the timer is left as the page load built it.
LedgerCommit(s, op) ==
  /\ Len(s.localEntries) <= MaxLedgerEntries
  /\ currentTimeEntry' = s.currentTimeEntry
  /\ localEntries' = s.localEntries
  /\ lsCurrent' = s.lsCurrent
  /\ lsEntries' = s.lsEntries
  /\ lsToggl' = s.lsToggl
  /\ hooks' = <<>>
  /\ lastOp' = op
  /\ UNCHANGED <<initialTime, remainingTime, isCurrent, timer, timeoutId, rafs,
                 timeouts, lsPlayerTime, controlsHidden, pauseIconHidden,
                 playIconHidden>>

\* ExternalTimerAPI.startTimeEntry()
StartTimeEntry ==
  /\ LedgerCommit(startTimeEntry(State, now),
                  Op("startTimeEntry", "none",
                     IF currentTimeEntry = NoEntry THEN "" ELSE "inProgress"))
  /\ UNCHANGED now

\* ExternalTimerAPI.stopTimeEntry()
StopTimeEntry ==
  /\ LedgerCommit(stopTimeEntry(State, now),
                  Op("stopTimeEntry", "none", stopTimeEntryReturns(State)))
  /\ UNCHANGED now

\* ExternalTimerAPI.init(): a new TimeEntriesStorage read from localStorage
LedgerLoad ==
  /\ LedgerCommit(PageLoad(State), Op("load", "none", ""))
  /\ UNCHANGED now

\* the history view is rendered: renderTimeEntries()
LedgerRender ==
  /\ LedgerCommit(renderTimeEntries(State), Op("openEntries", "none", ""))
  /\ UNCHANGED now

\* ExternalTimerAPI.storage.clearEntries(); renderTimeEntries()
LedgerClear ==
  /\ LedgerCommit(renderTimeEntries(clearEntries(State)),
                  Op("clearEntries", "none",
                     IF Len(localEntries) = 0 THEN "" ELSE "nonempty"))
  /\ UNCHANGED now

\* click on 'export': exportCSV(), downloaded unless it is null
ExportEntries ==
  /\ LedgerCommit(State,
                  Op("exportCSV", "none",
                     IF exportCSV(State).null THEN "null" ELSE "csv"))
  /\ UNCHANGED now

\* click on 'save' in the settings: the Toggl inputs are written to
\* localStorage
SaveSettings(values) ==
  /\ LedgerCommit([State EXCEPT !.lsToggl = values],
                  Op("saveSettings", "none", ""))
  /\ UNCHANGED now

NextLedger ==
  \/ StartTimeEntry
  \/ StopTimeEntry
  \/ LedgerLoad
  \/ LedgerRender
  \/ LedgerClear
  \/ ExportEntries
  \/ \E values \in SettingsChoices : SaveSettings(values)
  \/ \E t1 \in Instants : Advance(t1)

SpecLedger == Init /\ [][NextLedger]_vars

TypeOK ==
  /\ now \in Instants
  /\ timer \in Nat /\ timeoutId \in Nat
  /\ \A u \in Units : isCurrent[u] \in BOOLEAN
  /\ Len(localEntries) <= MaxEntries

\* Everything the program itself holds: all variables but the clock and the
\* two history variables.
progVars == <<initialTime, remainingTime, isCurrent, timer, timeoutId, rafs,
              timeouts, currentTimeEntry, localEntries, lsCurrent, lsEntries,
              lsPlayerTime, lsToggl, controlsHidden, pauseIconHidden,
              playIconHidden>>

NoCurrent == \A u \in Units : ~isCurrent[u]
Other(u) == IF u = "work" THEN "rest" ELSE "work"
HookCall(name, u) == [hook |-> name, unit |-> u]
LastEntry(entries) == entries[Len(entries)]

\* ==================================================================== C1
\* C1: at most one unit is current; when no unit is current the tick loop is
\* not running (timer = NULL, no callback pending), so STOPPED holds exactly
\* when no unit is current; a running tick loop implies exactly one current
\* unit.
C1_StoppedIffNoCurrent ==
  /\ ~(isCurrent["work"] /\ isCurrent["rest"])
  /\ (NoCurrent => (timer = NULL /\ rafs = {} /\ timeouts = {}))
  /\ ((timer = NULL /\ NoCurrent) <=> NoCurrent)
  /\ (timer # NULL => Cardinality({u \in Units : isCurrent[u]}) = 1)

\* rest has just taken over from a running work unit
C1_Witness ==
  /\ lastOp.op = "start" /\ lastOp.unit = "rest"
  /\ hooks = <<HookCall("handleStop", "work"), HookCall("handleStart", "rest")>>
  /\ isCurrent["rest"] /\ ~isCurrent["work"] /\ timer # NULL

\* ==================================================================== C2
\* C2: the ledger has an in-progress session exactly when the work unit is
\* current and the tick loop is running, in every reachable state, the state
\* right after a page reload included.
C2_SessionIffWorkRunning ==
  (currentTimeEntry # NoEntry) <=> (isCurrent["work"] /\ timer # NULL)

\* ==================================================================== C3
\* C3: between ticks every unit's remaining time lies between 0 and its
\* configured duration.
C3_RemainingInRange ==
  \A u \in Units : 0 <= remainingTime[u] /\ remainingTime[u] <= initialTime[u]

\* the running current unit has just been given a new duration after the
\* other unit had been counted down
C3_Witness ==
  /\ lastOp.op = "editTimer" /\ lastOp.arg = "accepted"
  /\ isCurrent[lastOp.unit] /\ timer # NULL
  /\ remainingTime[Other(lastOp.unit)] > 0
  /\ remainingTime[Other(lastOp.unit)] < initialTime[Other(lastOp.unit)]

\* ==================================================================== C4
\* C4: start(U) issued right after start(U), with no other handler in
\* between, leaves every program variable as it is and calls no hook.
C4_SecondStartNoOp ==
  [][\A u \in Units :
       (lastOp.op = "start" /\ lastOp.unit = u /\ Start(u))
         => (UNCHANGED progVars /\ hooks' = <<>>)]_vars

\* the second of two start(work) in a row has run, with a session in progress
C4_Witness ==
  /\ lastOp.op = "start" /\ lastOp.unit = "work" /\ lastOp.arg = "again"
  /\ hooks = <<>> /\ isCurrent["work"] /\ timer # NULL
  /\ currentTimeEntry # NoEntry

\* ==================================================================== C5
\* C5: activate(rest) while RUNNING with work current completes the session
\* in progress: one more completed session (started when the in-progress one
\* was), none in progress, rest current instead of work, engine still RUNNING.
C5_SwitchCompletesSession ==
  [][(timer # NULL /\ isCurrent["work"] /\ Start("rest"))
       => /\ Len(localEntries') = Len(localEntries) + 1
          /\ LastEntry(localEntries').start = currentTimeEntry.start
          /\ currentTimeEntry' = NoEntry
          /\ ~isCurrent'["work"] /\ isCurrent'["rest"]
          /\ timer' # NULL]_vars

\* work has been switched to rest after at least a second of running
C5_Witness ==
  /\ lastOp.op = "start" /\ lastOp.unit = "rest"
  /\ Len(hooks) = 2 /\ hooks[1] = HookCall("handleStop", "work")
  /\ Len(localEntries) >= 1 /\ LastEntry(localEntries).stop = now
  /\ LastEntry(localEntries).duration >= 1
  /\ isCurrent["rest"] /\ currentTimeEntry = NoEntry

\* ==================================================================== C6
\* C6: a tick that brings the current unit's remaining time to 0 stops the
\* tick loop (no callback left pending), leaves the unit current, and for
\* work makes exactly one hook call, handleTimeout, which completes exactly
\* one session; a reset() or an activation of the other unit that follows
\* the timeout calls no stop hook and completes no further session.
TimedOut(u) ==
  timer = NULL /\ isCurrent[u] /\ remainingTime[u] = 0

C6_TimeoutStopsOnce ==
  [][/\ \A r \in rafs, u \in Units :
          (isCurrent[u] /\ remainingTime[u] > 0 /\ Tick(r)
             /\ remainingTime'[u] = 0)
            => /\ timer' = NULL /\ timeoutId' = NULL
               /\ rafs' = {} /\ timeouts' = {}
               /\ isCurrent' = isCurrent
               /\ hooks' = <<HookCall("handleTimeout", u)>>
               /\ (u = "work" =>
                     /\ Len(localEntries') = Len(localEntries) + 1
                     /\ currentTimeEntry' = NoEntry)
               /\ (u = "rest" =>
                     UNCHANGED <<localEntries, currentTimeEntry>>)
     /\ \A u \in Units :
          (TimedOut(u) /\ lastOp.op = "tick" /\ (Reset \/ Start(Other(u))))
            => /\ \A i \in 1..Len(hooks') : hooks'[i].hook # "handleStop"
               /\ localEntries' = localEntries]_vars

\* work has timed out and a reset has followed
C6_Witness ==
  /\ lastOp.op = "reset" /\ lastOp.arg = "PAUSED"
  /\ hooks = <<>> /\ Len(localEntries) = 1
  /\ LastEntry(localEntries).stop = now
  /\ LastEntry(localEntries).duration >= 1
  /\ NoCurrent

\* ==================================================================== C7
\* C7: once the current unit has timed out, pause() and an activation of the
\* same unit do not resume the engine: the tick loop stays stopped, no
\* remaining time changes and the ledger is not touched.
C7_NoResumeAfterTimeout ==
  [][\A u \in Units :
       (TimedOut(u) /\ (Pause \/ Start(u)))
         => /\ timer' = NULL /\ rafs' = {} /\ timeouts' = {}
            /\ UNCHANGED <<remainingTime, currentTimeEntry, localEntries>>]_vars

\* ==================================================================== C8
\* The work unit has run without interruption from its full configured
\* duration since the session in progress was started: what it has lost is
\* exactly the time from the session's start to the loop's reference time.
RanFromFull(lastUpdateTime) ==
  /\ isCurrent["work"] /\ timer # NULL
  /\ currentTimeEntry # NoEntry
  /\ remainingTime["work"] > 0
  /\ remainingTime["work"] =
       initialTime["work"] - (lastUpdateTime - currentTimeEntry.start)

C9_PauseToggles ==
  [][\A u \in Units :
       (isCurrent[u] /\ Pause)
         => /\ isCurrent' = isCurrent
            /\ remainingTime' = remainingTime
            /\ IF timer # NULL
               THEN /\ timer' = NULL /\ rafs' = {} /\ timeouts' = {}
                    /\ hooks' = <<HookCall("handleStop", u)>>
                    /\ IF u = "work"
                       THEN /\ Len(localEntries') = Len(localEntries) + 1
                            /\ currentTimeEntry' = NoEntry
                       ELSE UNCHANGED <<localEntries, currentTimeEntry>>
               ELSE /\ timer' # NULL
                    /\ Cardinality(rafs') + Cardinality(timeouts') = 1
                    /\ hooks' = <<HookCall("handleStart", u)>>
                    /\ localEntries' = localEntries
                    /\ IF u = "work"
                       THEN currentTimeEntry'.start = now
                       ELSE currentTimeEntry' = currentTimeEntry]_vars

\* work was paused, which completed a session, and has been resumed, which
\* opened a new one
C9_Witness ==
  /\ lastOp.op = "pause"
  /\ hooks = <<HookCall("handleStart", "work")>>
  /\ isCurrent["work"] /\ timer # NULL
  /\ Len(localEntries) = 1
  /\ currentTimeEntry.start = now
  /\ remainingTime["work"] > 0

\* =================================================================== C10
\* C10: reset() in STOPPED changes no program variable (no unit current, the
\* remaining times, the durations, the tick loop, the ledger) and calls no
\* hook.
C10_ResetWhenStoppedNoOp ==
  [][(timer = NULL /\ NoCurrent /\ Reset)
       => (UNCHANGED progVars /\ hooks' = <<>>)]_vars

\* reset has run in STOPPED with a completed session in the ledger
C10_Witness ==
  /\ lastOp.op = "reset" /\ lastOp.arg = "STOPPED"
  /\ NoCurrent /\ timer = NULL
  /\ Len(localEntries) >= 1
  /\ initialTime["work"] # initialTime["rest"]
  /\ \A u \in Units : remainingTime[u] = initialTime[u]

\* =================================================================== C11
\* C11: reset() with a unit current (RUNNING, PAUSED or timed out) ends in
\* STOPPED: tick loop cancelled, nothing pending, no unit current, every
\* unit's remaining time equal to its configured duration as it is at the
\* time of the reset (the value of the last accepted edit, which is also the
\* stored setting); the durations are not changed.  The stop hook is called,
\* and a session completed, exactly when the engine was RUNNING with work
\* current.
C11_ResetEndsStopped ==
  [][(~NoCurrent /\ Reset)
       => /\ timer' = NULL /\ timeoutId' = NULL
          /\ rafs' = {} /\ timeouts' = {}
          /\ \A u \in Units : ~isCurrent'[u]
          /\ initialTime' = initialTime
          /\ \A u \in Units : remainingTime'[u] = initialTime[u]
          /\ IF timer # NULL /\ isCurrent["work"]
             THEN /\ Len(localEntries') = Len(localEntries) + 1
                  /\ currentTimeEntry' = NoEntry
                  /\ hooks' = <<HookCall("handleStop", "work")>>
             ELSE /\ UNCHANGED <<localEntries, currentTimeEntry>>
                  /\ \A i \in 1..Len(hooks') :
                       hooks'[i] # HookCall("handleStop", "work")]_vars

\* reset has run while rest was running, after a work session had been
\* completed by the switch to rest: the ledger is as the switch left it
C11_Witness ==
  /\ lastOp.op = "reset" /\ lastOp.arg = "RUNNING"
  /\ hooks = <<HookCall("handleStop", "rest")>>
  /\ Len(localEntries) = 1 /\ currentTimeEntry = NoEntry
  /\ NoCurrent /\ timer = NULL
  /\ \A u \in Units : remainingTime[u] = initialTime[u]

\* =================================================================== C12
\* C12: with an empty ledger, work current and running and its session in
\* progress (the state after activate(work) from STOPPED and any ticks short
\* of the timeout), reset() calls the stop hook of work exactly once and
\* leaves exactly one completed session, the one that was in progress, and
\* no session in progress.
C12_ResetStopsOnce ==
  [][(localEntries = <<>> /\ isCurrent["work"] /\ timer # NULL
        /\ currentTimeEntry # NoEntry /\ remainingTime["work"] > 0 /\ Reset)
       => /\ hooks' = <<HookCall("handleStop", "work")>>
          /\ Len(localEntries') = 1
          /\ localEntries'[1].start = currentTimeEntry.start
          /\ localEntries'[1].stop = now
          /\ lsEntries' = localEntries'
          /\ currentTimeEntry' = NoEntry /\ lsCurrent' = NoEntry]_vars

\* work has run for a second or more and has been reset
C12_Witness ==
  /\ lastOp.op = "reset" /\ lastOp.arg = "RUNNING"
  /\ hooks = <<HookCall("handleStop", "work")>>
  /\ Len(localEntries) = 1 /\ localEntries[1].stop = now
  /\ localEntries[1].duration >= 1
  /\ currentTimeEntry = NoEntry /\ NoCurrent

\* =================================================================== C13
\* C13: a timer event during which work is not current, before and after
\* (rest activated, paused, resumed, ticked, timed out, reset, any unit
\* edited), leaves the session in progress, the completed sessions and their
\* stored copies as they are; a completed session is only ever added by an
\* event that finds work current and calls a stop or timeout hook of work.
C13_OnlyWorkRecords ==
  [][/\ (~isCurrent["work"] /\ ~isCurrent'["work"])
          => UNCHANGED <<currentTimeEntry, localEntries, lsCurrent, lsEntries>>
     /\ (localEntries' # localEntries)
          => /\ isCurrent["work"]
             /\ \E i \in 1..Len(hooks') :
                  /\ hooks'[i].unit = "work"
                  /\ hooks'[i].hook \in {"handleStop", "handleTimeout"}]_vars

\* rest has run down to its timeout and the ledger has never been touched
C13_Witness ==
  /\ lastOp.op = "tick" /\ lastOp.unit = "rest"
  /\ hooks = <<HookCall("handleTimeout", "rest")>>
  /\ isCurrent["rest"] /\ remainingTime["rest"] = 0 /\ timer = NULL
  /\ localEntries = <<>> /\ currentTimeEntry = NoEntry
  /\ lsEntries = <<>> /\ lsCurrent = NoEntry

\* =================================================================== C14
\* C14: an accepted edit of the unit that is current while the engine is
\* RUNNING sets that unit's configured duration to the new value and leaves
\* its remaining time as it was before the edit.
C14_EditRunningKeepsRemaining ==
  [][\A u \in Units, result \in PromptResults, t1 \in Instants :
       (isCurrent[u] /\ timer # NULL /\ editOutcome(result) = "accepted"
          /\ EditTimer(u, result, t1))
         => /\ initialTime'[u] = parseTime(result.parts).value * 1000
            /\ remainingTime'[u] = remainingTime[u]]_vars
\* =================================================================== C15
\* C15: an accepted edit of a unit that is not both current and running
\* (engine STOPPED, PAUSED or timed out, or the unit is not the current one)
\* sets its configured duration and its remaining time to the new value and
\* leaves the other unit's configured duration and remaining time as they
\* were.
C15_EditNotRunningSetsBoth ==
  [][\A u \in Units, result \in {r \in PromptResults : editOutcome(r) = "accepted"} :
       (~(isCurrent[u] /\ timer # NULL) /\ EditTimer(u, result, now'))
         => /\ initialTime'[u] = parseTime(result.parts).value * 1000
            /\ remainingTime'[u] = parseTime(result.parts).value * 1000
            /\ initialTime'[Other(u)] = initialTime[Other(u)]
            /\ remainingTime'[Other(u)] = remainingTime[Other(u)]]_vars

\* rest has been given a new duration while work was running and had been
\* counted down
C15_Witness ==
  /\ lastOp.op = "editTimer" /\ lastOp.arg = "accepted" /\ lastOp.unit = "rest"
  /\ isCurrent["work"] /\ timer # NULL
  /\ remainingTime["work"] > 0
  /\ remainingTime["work"] < initialTime["work"]
  /\ remainingTime["rest"] = initialTime["rest"]
  /\ initialTime["rest"] # initialTime["work"]

\* =================================================================== C16
\* C16: an edit that is rejected (invalid format, or a parsed duration that
\* is not positive) leaves the configured durations, the remaining times,
\* the current unit, the run state (loop running or not) and the ledger
\* (session in progress, completed sessions) as they were when editTimer was
\* invoked, in STOPPED, PAUSED and RUNNING alike.
C16_RejectedEditChangesNothing ==
  [][\A u \in Units, result \in PromptResults, t1 \in Instants :
       (editOutcome(result) = "rejected" /\ EditTimer(u, result, t1))
         => /\ UNCHANGED <<initialTime, remainingTime, isCurrent>>
            /\ (timer' = NULL) = (timer = NULL)
            /\ UNCHANGED <<currentTimeEntry, localEntries>>]_vars
\* =================================================================== C17
\* C17: startTimeEntry invoked while a session is in progress leaves that
\* session in progress, its stored copy and the completed list as they are;
\* it never replaces the session in progress.
C17_StartKeepsSessionInProgress ==
  [][(currentTimeEntry # NoEntry /\ StartTimeEntry)
       => UNCHANGED <<currentTimeEntry, lsCurrent, localEntries, lsEntries>>]_vars

\* =================================================================== C18
\* C18: stopTimeEntry invoked with no session in progress returns null, adds
\* nothing to the completed list, writes nothing to storage and leaves the
\* session in progress null.
C18_StopWithoutSessionAbsorbed ==
  [][(currentTimeEntry = NoEntry /\ StopTimeEntry)
       => /\ lastOp'.arg = "null"
          /\ UNCHANGED <<currentTimeEntry, lsCurrent, localEntries, lsEntries>>]_vars

\* a second stop in a row has been absorbed after the first completed a
\* session
C18_Witness ==
  /\ lastOp.op = "stopTimeEntry" /\ lastOp.arg = "null"
  /\ currentTimeEntry = NoEntry /\ lsCurrent = NoEntry
  /\ Len(localEntries) >= 1 /\ lsEntries = localEntries
  /\ LastEntry(localEntries).stop = now

\* =================================================================== C19
\* C19: stopTimeEntry with a session in progress appends exactly one entry
\* to the completed list and keeps the entries before it; the entry's start
\* is the start of the session in progress, its stop is the time of the call
\* and not before the start, its duration is floor((stop - start) / 1000);
\* afterwards no session is in progress, the stored session in progress is
\* removed and the stored list is the completed list.
C19_StopAppendsOneEntry ==
  [][(currentTimeEntry # NoEntry /\ StopTimeEntry)
       => LET e == LastEntry(localEntries')
          IN /\ lastOp'.arg = "entry"
             /\ Len(localEntries') = Len(localEntries) + 1
             /\ SubSeq(localEntries', 1, Len(localEntries)) = localEntries
             /\ e.start = currentTimeEntry.start
             /\ e.stop = now /\ e.stop >= e.start
             /\ e.duration * 1000 <= e.stop - e.start
             /\ e.stop - e.start < (e.duration + 1) * 1000
             /\ currentTimeEntry' = NoEntry /\ lsCurrent' = NoEntry
             /\ lsEntries' = localEntries']_vars

\* a second session, of a second or more, has been completed
C19_Witness ==
  /\ lastOp.op = "stopTimeEntry" /\ lastOp.arg = "entry"
  /\ Len(localEntries) = 2
  /\ LastEntry(localEntries).stop = now
  /\ LastEntry(localEntries).duration >= 1
  /\ currentTimeEntry = NoEntry /\ lsCurrent = NoEntry

\* =================================================================== C20
\* C20: in every reachable state the completed list is in completion order
\* (no entry comes before one that was completed earlier), and so are the
\* rows exportCSV emits, also after the history view has been rendered.
C20_CompletionOrder ==
  /\ \A i, j \in 1..Len(localEntries) :
       i < j => localEntries[i].stop <= localEntries[j].stop
  /\ \A i, j \in 1..Len(exportCSV(State).rows) :
       i < j => exportCSV(State).rows[i].endTime <= exportCSV(State).rows[j].endTime
\* =================================================================== C21
\* C21: after every ledger operation (start, stop, clear, viewing the
\* history) the stored ledger equals the ledger in memory: the stored session
\* in progress is the session in progress and the stored list is the
\* completed list, in the same order, so that a reload rebuilds the same
\* ledger.
C21_StoredEqualsMemory ==
  /\ lsCurrent = currentTimeEntry
  /\ lsEntries = localEntries
  /\ PageLoad(State).localEntries = localEntries
  /\ PageLoad(State).currentTimeEntry = currentTimeEntry
\* =================================================================== C22
\* C22: clearing the ledger empties the completed list in memory and in
\* storage and leaves the session in progress and its stored copy as they
\* are; a stop that follows the clear gives a completed list of exactly one
\* session, the one that was in progress.
C22_ClearKeepsSessionInProgress ==
  [][/\ LedgerClear
          => /\ localEntries' = <<>> /\ lsEntries' = <<>>
             /\ UNCHANGED <<currentTimeEntry, lsCurrent>>
     /\ (lastOp.op = "clearEntries" /\ currentTimeEntry # NoEntry
           /\ StopTimeEntry)
          => /\ Len(localEntries') = 1
             /\ localEntries'[1].start = currentTimeEntry.start
             /\ lsEntries' = localEntries'
             /\ currentTimeEntry' = NoEntry]_vars

\* a list that was not empty has been cleared with a session in progress,
\* started before the clear
C22_Witness ==
  /\ lastOp.op = "clearEntries" /\ lastOp.arg = "nonempty"
  /\ localEntries = <<>> /\ lsEntries = <<>>
  /\ currentTimeEntry # NoEntry /\ lsCurrent = currentTimeEntry
  /\ currentTimeEntry.start < now
\* =================================================================== C23
\* C23: exportCSV returns null exactly when the completed list is empty,
\* whether or not a session is in progress; otherwise it returns the header
\* row of the 8 columns Description, Start date, Start time, End date, End
\* time, Duration, Email, Project followed by exactly one row of 8 cells per
\* completed session and no row for the session in progress: 1 + the number
\* of completed sessions lines.
C23_ExportOneRowPerSession ==
  LET csv == exportCSV(State)
      lines == IF csv.null THEN <<>> ELSE <<csv.header>> \o csv.rows
  IN /\ csv.null <=> (localEntries = <<>>)
     /\ ~csv.null =>
          /\ csv.header = <<"Description", "Start date", "Start time",
                            "End date", "End time", "Duration", "Email",
                            "Project">>
          /\ Len(lines) = 1 + Len(localEntries)
          /\ \A i \in 1..Len(csv.rows) :
               /\ Cardinality(DOMAIN csv.rows[i]) = Len(csv.header)
               /\ csv.rows[i].description = localEntries[i].description
               /\ csv.rows[i].startTime = (localEntries[i].start % DayMs) \div 1000
               /\ csv.rows[i].endTime = (localEntries[i].stop % DayMs) \div 1000

\* two completed sessions have been exported while a third was in progress
C23_Witness ==
  /\ lastOp.op = "exportCSV" /\ lastOp.arg = "csv"
  /\ Len(localEntries) = 2 /\ currentTimeEntry # NoEntry
  /\ Len(exportCSV(State).rows) = 2
\* =================================================================== C24
\* C24: a session gets as its description the default-description setting
\* in force when it is started, "Work session" when that setting is empty;
\* saving other settings later changes the description of no session, in
\* progress or completed, and completing a session keeps its description;
\* the Email and Project cells of every exported row are the settings at the
\* time of the export, whatever the settings were when the session ran.
C24_DescriptionFixedAtStart ==
  [][/\ StartTimeEntry
          => currentTimeEntry'.description =
               (IF lsToggl.description = "" THEN "Work session"
                ELSE lsToggl.description)
     /\ (\E values \in SettingsChoices : SaveSettings(values))
          => UNCHANGED <<currentTimeEntry, lsCurrent, localEntries, lsEntries>>
     /\ (currentTimeEntry # NoEntry /\ StopTimeEntry)
          => LastEntry(localEntries').description = currentTimeEntry.description
     /\ \A i \in 1..Len(exportCSV(State).rows) :
          /\ exportCSV(State).rows[i].description = localEntries[i].description
          /\ exportCSV(State).rows[i].email = lsToggl.email
          /\ exportCSV(State).rows[i].project = lsToggl.projectName]_vars

\* a session started and completed under empty settings has been exported
\* after other settings were saved
C24_Witness ==
  /\ lastOp.op = "exportCSV" /\ lastOp.arg = "csv"
  /\ lsToggl.description = "Deep work"
  /\ Len(localEntries) >= 1
  /\ localEntries[1].description = "Work session"
  /\ exportCSV(State).rows[1].description = "Work session"
  /\ exportCSV(State).rows[1].email = "me@example.org"
\* =================================================================== C25
\* C25: when a unit is activated while the other unit is current and the
\* engine is RUNNING, the stop hook of the unit that was current is called
\* before the start hook of the activated unit, from work to rest and from
\* rest to work.
C25_StopBeforeStartOnSwitch ==
  [][\A u \in Units :
       (timer # NULL /\ isCurrent[Other(u)] /\ Start(u))
         => hooks' = <<HookCall("handleStop", Other(u)),
                       HookCall("handleStart", u)>>]_vars
\* =================================================================== C26
\* C26: in every reachable state at most one tick callback is outstanding,
\* a pending animation frame or a pending timeout, never both and never two
\* of one kind; when the tick loop is off (after pause, reset or a timeout,
\* that is PAUSED or STOPPED) none is outstanding, so no tick can execute.
C26_AtMostOneTickCallback ==
  /\ Cardinality(rafs) + Cardinality(timeouts) <= 1
  /\ (timer = NULL => (rafs = {} /\ timeouts = {}))

\* the loop has ticked and was then paused: a unit is current, part of its
\* time has gone, and no callback is outstanding
C26_Witness ==
  /\ lastOp.op = "pause" /\ timer = NULL
  /\ \E u \in Units : isCurrent[u] /\ remainingTime[u] < initialTime[u]
  /\ rafs = {} /\ timeouts = {}
\* =================================================================== C27
\* C27: a tick that comes at least UPDATE_DELAY after the loop's reference
\* time (the previous processed tick, or the start of the loop) takes exactly
\* the time elapsed since the reference time off the current unit, not going
\* below 0, and makes the present instant the reference time; an earlier
\* tick takes nothing off and leaves the reference time alone; the timeout
\* between two ticks carries the reference time on unchanged, and a loop
\* that is started takes the instant of its start as reference time.
C27_TickDecrementsElapsed ==
  [][/\ \A r \in rafs, u \in Units :
          (isCurrent[u] /\ Tick(r))
            => /\ remainingTime'[Other(u)] = remainingTime[Other(u)]
               /\ IF now - r.last >= UPDATE_DELAY
                  THEN /\ remainingTime'[u] =
                            Max(0, remainingTime[u] - (now - r.last))
                       /\ \A q \in timeouts' : q.last = now
                       /\ (remainingTime'[u] > 0 => timeouts' # {})
                  ELSE /\ remainingTime'[u] = remainingTime[u]
                       /\ timeouts' # {}
                       /\ \A q \in timeouts' : q.last = r.last
     /\ \A q \in timeouts :
          TimeoutFire(q) => /\ remainingTime' = remainingTime
                            /\ rafs' # {}
                            /\ \A r \in rafs' : r.last = q.last
     /\ \A u \in Units :
          (timer = NULL /\ (Start(u) \/ (isCurrent[u] /\ Pause)))
            => /\ rafs' # {}
               /\ \A r \in rafs' : r.last = now]_vars

\* a tick came 25 ms after the loop was started: nothing was taken off and
\* the timeout that is pending still carries the instant of the start
C27_Witness ==
  /\ lastOp.op = "tick" /\ timer # NULL
  /\ \E q \in timeouts : q.last < now /\ now - q.last < UPDATE_DELAY
  /\ \E u \in Units : isCurrent[u] /\ remainingTime[u] = initialTime[u]
\* =================================================================== C28
\* C28: start() called with a controller that is neither the work nor the
\* rest controller changes nothing: the current unit, the run state, the
\* tick loop, the remaining times and the ledger stay as they were.
C28_UnknownStartChangesNothing ==
  [][StartUnknown
       => UNCHANGED <<isCurrent, timer, timeoutId, rafs, timeouts,
                      remainingTime, currentTimeEntry, localEntries,
                      lsCurrent, lsEntries>>]_vars
\* =================================================================== C29
\* C29: the control area (reset and pause buttons) is hidden exactly when no
\* unit is current: hidden on the initial load and after reset, shown after
\* an activation from STOPPED and all through RUNNING, PAUSED and the
\* timed-out state.
C29_ControlsHiddenIffNoCurrent ==
  controlsHidden <=> NoCurrent

\* a unit has just timed out: it is still current, the loop is off and the
\* controls are shown
C29_Witness ==
  /\ lastOp.op = "tick" /\ timer = NULL /\ ~controlsHidden
  /\ \E u \in Units : isCurrent[u] /\ remainingTime[u] = 0
\* =================================================================== C30
\* C30: TimerModel.updateTime(e) sets remainingTime to max(0, remainingTime
\* - e) when e > 0 and returns the new value; it changes nothing when e <= 0
\* or when remainingTime is already 0; it never changes initialTime or
\* isCurrent (nor the other model).
C30_UpdateTimeClampsAtZero ==
  [][\A u \in Units, e \in ElapsedChoices :
       UpdateTime(u, e)
         => /\ remainingTime'[u] = IF e > 0 THEN Max(0, remainingTime[u] - e)
                                             ELSE remainingTime[u]
            /\ (remainingTime[u] = 0 => remainingTime'[u] = 0)
            /\ lastOp'.arg = ToString(remainingTime'[u])
            /\ remainingTime'[Other(u)] = remainingTime[Other(u)]
            /\ UNCHANGED <<initialTime, isCurrent>>]_vars

\* updateTime has taken 400 ms twice off a current model of 1000 ms and
\* returned the 200 ms that remain
C30_Witness ==
  /\ lastOp.op = "updateTime" /\ lastOp.arg = "200"
  /\ isCurrent[lastOp.unit]
  /\ initialTime[lastOp.unit] = 1000 /\ remainingTime[lastOp.unit] = 200
\* =================================================================== C31
\* The session in progress, if there is one, can still be completed within
\* the cap on the ledger.
LedgerHasRoom ==
  currentTimeEntry = NoEntry \/ Len(localEntries) < MaxEntries

\* C31: when the engine is RUNNING, the user does nothing more, the pending
\* callbacks keep being run and the clock goes on, the remaining time of the
\* current unit reaches 0 in the end and the timeout is taken: the loop is
\* stopped with the unit still current.
C31_RunningLoopTimesOut ==
  (timer # NULL /\ now > FirstInstant /\ LedgerHasRoom)
    ~> (\E u \in Units : TimedOut(u))

\* the loop has run to the last instant and the unit has timed out
C31_Witness ==
  /\ lastOp.op = "tick" /\ now > FirstInstant
  /\ \E u \in Units : TimedOut(u) /\ initialTime[u] = 2000
\* =================================================================== C32
\* C32: whenever some unit is current, the pause button shows the play icon
\* (and not the pause icon) exactly when the tick loop is not running: play
\* after pause and after a timeout has stopped the loop, the pause icon
\* after resume and after an activation.
C32_PlayIconIffLoopOff ==
  ~NoCurrent => ((~playIconHidden /\ pauseIconHidden) <=> timer = NULL)
\* =================================================================== C33
\* C33: in every reachable state where no unit is current (STOPPED), the
\* remaining time of each unit equals its configured duration.
C33_StoppedMeansFull ==
  NoCurrent => \A u \in Units : remainingTime[u] = initialTime[u]

\* a unit has run, lost part of its time, and the engine was reset
C33_Witness ==
  /\ lastOp.op = "reset" /\ lastOp.arg # "STOPPED" /\ NoCurrent
  /\ now > 0
  /\ \A u \in Units : remainingTime[u] = initialTime[u]
\* =================================================================== C34
\* The calls a handler made to the ledger, in order: the hooks of the work
\* controller (handleStart starts a session, handleStop and handleTimeout
\* stop one).
IsLedgerCall(h) == h.unit = "work"

RECURSIVE Alternates(_, _)
Alternates(calls, inProgress) ==
  IF calls = <<>> THEN TRUE
  ELSE IF Head(calls).hook = "handleStart"
       THEN ~inProgress /\ Alternates(Tail(calls), TRUE)
       ELSE inProgress /\ Alternates(Tail(calls), FALSE)

\* C34: without a page reload the calls of the timer to the ledger alternate
\* start, stop, start, stop, beginning with start: every handler issues a
\* start only when no session is in progress and a stop only when one is,
\* also within one handler that makes several calls.
C34_LedgerCallsAlternate ==
  [][(~ \E t1 \in Instants : Advance(t1))
       => Alternates(SelectSeq(hooks', IsLedgerCall),
                     currentTimeEntry # NoEntry)]_vars

\* an edit while work was running has stopped the session in progress and
\* started the next one
C34_Witness ==
  /\ lastOp.op = "editTimer"
  /\ hooks = <<HookCall("handleStop", "work"), HookCall("handleStart", "work")>>
  /\ Len(localEntries) = 1 /\ currentTimeEntry # NoEntry
\* =================================================================== C35
\* C35: time that passes while the tick loop is off (PAUSED, timed out or
\* STOPPED) is never taken off any unit: with the loop off no step lowers a
\* remaining time unless it sets a new duration, a loop that is started
\* takes the instant of its start as reference and takes nothing off by
\* itself (after an edit of a running timer, the instant the prompt
\* returned), and a tick takes off no more than the time since the reference
\* of its loop, so the first processed tick after a resume takes off the
\* time since the resume.
C35_PausedTimeNotDeducted ==
  [][/\ (timer = NULL /\ initialTime' = initialTime)
          => \A u \in Units : remainingTime'[u] >= remainingTime[u]
     /\ (timer = NULL /\ timer' # NULL)
          => /\ remainingTime' = remainingTime
             /\ rafs' # {} /\ timeouts' = {}
             /\ \A r \in rafs' : r.last = now'
     /\ (timer # NULL /\ lastOp'.op = "editTimer"
           /\ (rafs' # rafs \/ timeouts' # timeouts))
          => /\ rafs' # {} /\ timeouts' = {}
             /\ \A r \in rafs' : r.last = now'
     /\ \A r \in rafs, u \in Units :
          Tick(r) => /\ r.last <= now
                     /\ remainingTime'[u] >= remainingTime[u] - (now - r.last)]_vars

\* work of 2000 ms was paused at once, resumed at 1000 ms, and the tick at
\* 2000 ms has taken 1000 ms off
C35_Witness ==
  /\ lastOp.op = "tick" /\ now = 2000 /\ timer # NULL
  /\ isCurrent["work"]
  /\ initialTime["work"] = 2000 /\ remainingTime["work"] = 1000
  /\ Len(localEntries) = 1 /\ localEntries[1].stop = 0
  /\ currentTimeEntry # NoEntry /\ currentTimeEntry.start = 1000
\* =================================================================== C36
\* C36: a tick changes the remaining time of the current unit only; an
\* activation of the other unit while the loop runs leaves the loop, its
\* pending callback with its reference time, and both remaining times as
\* they are, so the unit that was left is not touched by later ticks and the
\* time between the last processed tick and the switch is taken off the
\* newly activated unit by the next processed tick.
C36_TickChargesCurrentOnly ==
  [][/\ \A r \in rafs, u \in Units :
          (isCurrent[u] /\ Tick(r))
            => /\ remainingTime'[Other(u)] = remainingTime[Other(u)]
               /\ (now - r.last >= UPDATE_DELAY
                     => remainingTime'[u] =
                          Max(0, remainingTime[u] - (now - r.last)))
     /\ \A u \in Units :
          (timer # NULL /\ isCurrent[Other(u)] /\ Start(u))
            => /\ UNCHANGED <<timer, timeoutId, rafs, timeouts, remainingTime>>
               /\ isCurrent'[u] /\ ~isCurrent'[Other(u)]]_vars

\* work ran from 0 to 1000 ms without a processed tick, rest was activated
\* at 1000 ms, and the tick at 1000 ms has taken the 1000 ms off rest
C36_Witness ==
  /\ lastOp.op = "tick" /\ now = 1000 /\ isCurrent["rest"]
  /\ remainingTime["work"] = initialTime["work"]
  /\ initialTime["rest"] = 2000 /\ remainingTime["rest"] = 1000
  /\ Len(localEntries) = 1
  /\ localEntries[1].start = 0 /\ localEntries[1].stop = 1000
\* =================================================================== C37
\* C37: an activation of a unit while some unit is current and the loop is
\* off (PAUSED) ends RUNNING with the activated unit as the only current
\* unit; it calls the start hook of the activated unit exactly once and no
\* other hook, whether the activated unit is the paused one or the other.
C37_ActivateWhilePaused ==
  [][\A u \in Units :
       (timer = NULL /\ ~NoCurrent /\ Start(u))
         => /\ timer' # NULL
            /\ isCurrent'[u] /\ ~isCurrent'[Other(u)]
            /\ hooks' = <<HookCall("handleStart", u)>>]_vars

\* work was paused with part of its time gone, and rest was activated
C37_Witness ==
  /\ lastOp.op = "start" /\ lastOp.unit = "rest"
  /\ hooks = <<HookCall("handleStart", "rest")>>
  /\ isCurrent["rest"] /\ ~isCurrent["work"] /\ timer # NULL
  /\ 0 < remainingTime["work"] /\ remainingTime["work"] < initialTime["work"]
  /\ remainingTime["rest"] = initialTime["rest"]
\* =================================================================== C38
\* C38: editTimer called while the engine is RUNNING returns with the engine
\* RUNNING and the same unit current, whatever the prompt returned, and
\* leaves the number of completed sessions and the start time of the session
\* in progress as they were.
C38_EditRunningKeepsSession ==
  [][\A u \in Units, result \in PromptResults :
       (timer # NULL /\ EditTimer(u, result, now'))
         => /\ timer' # NULL
            /\ isCurrent' = isCurrent
            /\ Len(localEntries') = Len(localEntries)
            /\ currentTimeEntry'.start = currentTimeEntry.start]_vars
\* =================================================================== C39
\* The sessions the ledger knows, by their start times: the session in
\* progress and the completed ones.
SessionsOf(current, entries) ==
  (IF current # NoEntry THEN {current.start} ELSE {})
    \cup {entries[i].start : i \in DOMAIN entries}

\* C39: no started session is ever lost: every step other than clearing the
\* entries, a page reload included, keeps each session the ledger knows as
\* the session in progress or as a member of the completed list.
C39_NoSessionLost ==
  [][~ClearEntries
       => SessionsOf(currentTimeEntry, localEntries)
            \subseteq SessionsOf(currentTimeEntry', localEntries')]_vars
====
